---- MODULE Spec2Model ----
(***************************************************************************)
(* The create_deal instruction of the deezjobs program                     *)
(* (programs/deezjobs/src/instructions/create_deal.rs).                    *)
(*                                                                         *)
(* The state is the set of accounts the instruction reads and writes: the  *)
(* Gig and Config records, the clients' token wallets, the Deal records    *)
(* and their escrow token accounts, and the clock.  One action runs one    *)
(* create_deal transaction: the account validation of the CreateDeal       *)
(* struct followed by create_deal_handler.  A transaction whose            *)
(* instruction returns an error or panics leaves no account changed.       *)
(*                                                                         *)
(* Integers are scaled: u64 is modelled with Bits bits (0 .. U64Max) and   *)
(* i64 with the same number of bits, two's complement.                     *)
(***************************************************************************)
EXTENDS Integers, Sequences, FiniteSets, TLC

\* ---------------------------------------------------------------- bounds

\* Width of the modelled u64 / i64.
Bits == 20

\* Number of create_deal transactions in a behaviour.
MaxCalls == 2

U64Max == 2^Bits - 1
I64Max == 2^(Bits - 1) - 1
I64Min == 0 - 2^(Bits - 1)

\* ------------------------------------------------------------ identities

Clients == {"c1", "c2"}
Gigs == {"g1", "g2"}
Mints == {"m1", "m2"}

\* Option<T>: None is the empty set, Some(x) the singleton.
None == {}

Some(x) == {x}

unwrap(opt) == CHOOSE x \in opt : TRUE

\* ------------------------------------------------------ integer helpers

\* u64 + in a build without overflow checks.
WrapU64(x) == x % (U64Max + 1)

\* i64 + in a build without overflow checks.
WrapI64(x) == ((x - I64Min) % (U64Max + 1)) + I64Min

\* u64::saturating_mul in place of checked_mul.
saturating_mul(a, b) ==
    IF b # 0 /\ a > U64Max \div b THEN Some(U64Max) ELSE Some(a * b)

\* u64::checked_mul: None when the product leaves the u64 range.
checked_mul(a, b) ==
    IF b # 0 /\ a > U64Max \div b THEN None ELSE Some(a * b)

\* u64::checked_div: None only for a zero divisor.
checked_div(a, b) ==
    IF b = 0 THEN None ELSE Some(a \div b)

\* The fee divisor 100_00.
FeeDivisor == 10000

\* ----------------------------------------------------------------- state

VARIABLES
    gigs,             \* Gig records, by gig key
    config,           \* the Config record
    overflow_checks,  \* whether the build traps on integer overflow
    now,              \* Clock::get()?.unix_timestamp
    wallet,           \* clients' token accounts: <<owner, mint>> -> amount
    escrow,           \* escrow token accounts: <<deal key, mint>> -> amount
    deal,             \* Deal records, by deal key
    last,             \* the last create_deal transaction: inputs, result, pre-state
    calls             \* create_deal transactions so far

vars == <<gigs, config, overflow_checks, now, wallet, escrow, deal, last, calls>>

\* An open Gig settled in mint m1.
OpenGig ==
    [ owner |-> "f1", mint |-> Some("m1"), asking |-> 4000,
      min_completion_time |-> 86400, state |-> 1 ]

\* The Gig records create_deal may be run against: the open Gig, a Gig that
\* is not open, a native-currency Gig, a Gig settled in mint m2, and a Gig
\* with the largest min_completion_time.
GigProfiles ==
    { OpenGig,
      [OpenGig EXCEPT !.state = 0],
      [OpenGig EXCEPT !.mint = None],
      [OpenGig EXCEPT !.mint = Some("m2")],
      [OpenGig EXCEPT !.min_completion_time = I64Max] }

\* The Config records create_deal may be run under.
ConfigSet ==
    [ bump : {255},
      client_fee_percentage : {1, 250},
      client_fee_min : {50} ]

\* CreateDealParams.
Offers == {3999, 4000, U64Max}

Deadlines(t) == {t + 86399, t + 86400}

Referrers == {None, Some("c1")}

CreateDealParams ==
    [ referrer : Referrers, offer : Offers, deadline : Deadlines(now) ]

\* The address of the Deal record derived without the gig seed.
DealKey_without_gig(c, g) == <<"deal", c, "">>

\* The address of the Deal record: seeds "deal", owner, gig.
DealKey(c, g) == <<"deal", c, g>>

\* An associated token account: authority and mint.
TokenKey(authority, m) == <<authority, m>>

\* A Deal account as init leaves it: allocated, all fields zero.
ZeroDeal ==
    [ bump |-> 0, offer |-> 0, state |-> 0, gig |-> "", freelancer |-> "",
      client |-> "", referrer |-> None, time_created |-> 0, deadline |-> 0 ]

\* The accounts a transaction works on, and what it did so far.
Accounts == [ wallet |-> wallet, escrow |-> escrow, deal |-> deal, trace |-> <<>> ]

Outcome(res, st) == [ result |-> res, st |-> st ]

\* The bump of the Deal address, as find_program_address gives it.
FindBump(c, g) == 255

\* ------------------------------------------------- account validation

\* #[account(init, seeds = ["deal", owner, gig])] deal: the record is created
\* once; a second creation at the same address fails.  The new account is
\* zeroed.
InitDeal(st, c, g) ==
    IF DealKey(c, g) \in DOMAIN st.deal
    THEN Outcome("AlreadyInUse", st)
    ELSE Outcome("Ok", [st EXCEPT !.deal = (DealKey(c, g) :> ZeroDeal) @@ @,
                                  !.trace = Append(@, "init_deal")])

\* #[account(init, associated_token::mint = mint, authority = deal)] escrow:
\* a new, empty token account of the mint, controlled by the Deal record.
InitEscrow(st, c, g, m) ==
    IF TokenKey(DealKey(c, g), m) \in DOMAIN st.escrow
    THEN Outcome("AlreadyInUse", st)
    ELSE Outcome("Ok", [st EXCEPT !.escrow = (TokenKey(DealKey(c, g), m) :> 0) @@ @,
                                  !.trace = Append(@, "init_escrow")])

\* The mint account taken without its constraint.
MintConstraint_absent(gig, m) == "Ok"

\* constraint = mint.key() == gig.mint.unwrap().key(): unwrap panics on None.
MintConstraint(gig, m) ==
    IF gig.mint = None THEN "Panic:unwrap_mint"
    ELSE IF m = unwrap(gig.mint) THEN "Ok"
    ELSE "ConstraintRaw:mint"

\* The gig constraints without the one on gig.asking.
GigConstraint_no_asking(gig, params) ==
    IF gig.state # 1 THEN "ConstraintRaw:gig" ELSE "Ok"

\* The gig constraints without the one on gig.state.
GigConstraint_no_state(gig, params) ==
    IF ~(gig.asking <= params.offer) THEN "InsufficientOffer" ELSE "Ok"

\* constraint = gig.state == 1,
\* constraint = gig.asking <= params.offer @ CustomError::InsufficientOffer.
GigConstraint(gig, params) ==
    IF gig.state # 1 THEN "ConstraintRaw:gig"
    ELSE IF ~(gig.asking <= params.offer) THEN "InsufficientOffer"
    ELSE "Ok"

\* CreateDeal with init_if_needed in place of init: existing accounts are taken
\* as they are.
CreateDeal_init_if_needed(st, c, g, m, params) ==
    LET d == InitDeal(st, c, g)
        s1 == IF d.result = "Ok" THEN d.st ELSE st
        e == InitEscrow(s1, c, g, m)
        s2 == IF e.result = "Ok" THEN e.st ELSE s1
        mc == MintConstraint(gigs[g], m)
    IN  IF mc # "Ok" THEN Outcome(mc, s2)
        ELSE Outcome(GigConstraint(gigs[g], params), s2)

\* The CreateDeal accounts struct: the init accounts are created first, in
\* field order, then the constraints of the other accounts are checked in
\* field order.  The first failure ends the instruction.
CreateDeal(st, c, g, m, params) ==
    LET d == InitDeal(st, c, g) IN
    IF d.result # "Ok" THEN d ELSE
    LET e == InitEscrow(d.st, c, g, m) IN
    IF e.result # "Ok" THEN e ELSE
    LET mc == MintConstraint(gigs[g], m) IN
    IF mc # "Ok" THEN Outcome(mc, e.st) ELSE
    Outcome(GigConstraint(gigs[g], params), e.st)

\* -------------------------------------------------------------- handler

\* config.client_fee_percentage.try_into(): None for a value outside u64.
try_into_u64(x) == IF x >= 0 /\ x <= U64Max THEN Some(x) ELSE None

\* The fee on an offer: percentage * offer / 100_00, raised to
\* client_fee_min.  None when try_into, checked_mul or checked_div gives
\* None (the unwrap panics).
client_fee(offer) ==
    LET pct == try_into_u64(config.client_fee_percentage) IN
    IF pct = None THEN None ELSE
    LET product == checked_mul(unwrap(pct), offer) IN
    IF product = None THEN None ELSE
    LET quotient == checked_div(unwrap(product), FeeDivisor) IN
    IF quotient = None THEN None ELSE
    IF unwrap(quotient) < config.client_fee_min
    THEN Some(config.client_fee_min)
    ELSE quotient

\* params.offer + client_fee, a plain u64 +: a build with overflow checks
\* panics on overflow (None), a build without them wraps.
total_escrow_amount(offer, fee) ==
    IF offer + fee > U64Max /\ overflow_checks
    THEN None
    ELSE Some(WrapU64(offer + fee))

\* The transfer drawn from the first client's wallet, whoever signs.
transfer_wrong_wallet(st, from, to, amount) ==
    IF st.wallet[TokenKey("c1", from[2])] < amount
    THEN Outcome("InsufficientFunds", st)
    ELSE Outcome("Ok", [st EXCEPT !.wallet[TokenKey("c1", from[2])] = @ - amount,
                                  !.escrow[to] = @ + amount,
                                  !.trace = Append(@, "transfer")])

\* anchor_spl::token::transfer from the owner's wallet to the escrow: the whole
\* amount moves, or the transfer fails and nothing moves.
transfer(st, from, to, amount) ==
    IF st.wallet[from] < amount
    THEN Outcome("InsufficientFunds", st)
    ELSE Outcome("Ok", [st EXCEPT !.wallet[from] = @ - amount,
                                  !.escrow[to] = @ + amount,
                                  !.trace = Append(@, "transfer")])

\* deal.bump = ..; deal.offer = ..; .. deal.deadline = params.deadline.
populate(st, c, g, params, t) ==
    [st EXCEPT !.deal[DealKey(c, g)] =
                   [@ EXCEPT !.bump = FindBump(c, g),
                             !.offer = params.offer,
                             !.state = 1,
                             !.gig = g,
                             !.freelancer = gigs[g].owner,
                             !.client = c,
                             !.time_created = t,
                             !.deadline = params.deadline],
               !.trace = Append(@, "populate")]

\* The referrer recorded whenever one is supplied.
resolve_referrer_unguarded(st, c, g, params) ==
    IF params.referrer # None
    THEN [st EXCEPT !.deal[DealKey(c, g)].referrer = params.referrer]
    ELSE st

\* match params.referrer: recorded only when it is not the client.
resolve_referrer(st, c, g, params) ==
    IF params.referrer # None /\ c # unwrap(params.referrer)
    THEN [st EXCEPT !.deal[DealKey(c, g)].referrer = params.referrer]
    ELSE st

\* deal.time_created + gig.min_completion_time > params.deadline, a plain
\* i64 +: panics on overflow with overflow checks, wraps without.
deadline_check(time_created, min_completion_time, deadline) ==
    LET sum == time_created + min_completion_time IN
    IF (sum > I64Max \/ sum < I64Min) /\ overflow_checks
    THEN "Panic:add_overflow"
    ELSE IF WrapI64(sum) > deadline THEN "DeadlineTooShort"
    ELSE "Ok"

create_deal_handler(st, c, g, m, params) ==
    LET fee == client_fee(params.offer) IN
    IF fee = None THEN Outcome("Panic:unwrap", st) ELSE
    LET total == total_escrow_amount(params.offer, unwrap(fee)) IN
    IF total = None THEN Outcome("Panic:add_overflow", st) ELSE
    LET t == transfer(st, TokenKey(c, m), TokenKey(DealKey(c, g), m), unwrap(total)) IN
    IF t.result # "Ok" THEN t ELSE
    LET s1 == populate(t.st, c, g, params, now)
        s2 == resolve_referrer(s1, c, g, params)
    IN  Outcome(deadline_check(s2.deal[DealKey(c, g)].time_created,
                               gigs[g].min_completion_time,
                               params.deadline), s2)

\* The instruction: account validation, then the handler.
instruction(st, c, g, m, params) ==
    LET a == CreateDeal(st, c, g, m, params) IN
    IF a.result # "Ok" THEN a ELSE create_deal_handler(a.st, c, g, m, params)

\* The redesign of spec section 9: every validation, the deadline check
\* included, runs before the fee is computed and the funds move.
instruction_preflight(st, c, g, m, params) ==
    LET a == CreateDeal(st, c, g, m, params) IN
    IF a.result # "Ok" THEN a ELSE
    LET dc == deadline_check(now, gigs[g].min_completion_time, params.deadline) IN
    IF dc # "Ok" THEN Outcome(dc, a.st) ELSE
    LET fee == client_fee(params.offer) IN
    IF fee = None THEN Outcome("Panic:unwrap", a.st) ELSE
    LET total == total_escrow_amount(params.offer, unwrap(fee)) IN
    IF total = None THEN Outcome("Panic:add_overflow", a.st) ELSE
    LET t == transfer(a.st, TokenKey(c, m), TokenKey(DealKey(c, g), m), unwrap(total)) IN
    IF t.result # "Ok" THEN t ELSE
    Outcome("Ok", resolve_referrer(populate(t.st, c, g, params, now), c, g, params))

\* A runtime that keeps the writes of a failed instruction.
commit_no_rollback(pre, out) == out.st

\* The accounts after the transaction: the instruction's writes when it
\* returned Ok(()), the accounts as they were when it returned Err or panicked.
commit(pre, out) == IF out.result = "Ok" THEN out.st ELSE pre

\* --------------------------------------------------------- state machine

InitialBalance(c) == IF c = "c1" THEN 5000 ELSE 4099

\* What a transaction leaves: its result and the accounts after it.
Left(pre, out) ==
    LET post == commit(pre, out) IN
    [ result |-> out.result, wallet |-> post.wallet, escrow |-> post.escrow,
      deal |-> post.deal ]

\* The sum of f over the keys in S.
RECURSIVE SumOver(_, _)
SumOver(f, S) ==
    IF S = {} THEN 0
    ELSE LET k == CHOOSE x \in S : TRUE IN f[k] + SumOver(f, S \ {k})

\* The accounts st without the Deals opened on gigs other than g: their
\* records and escrows removed, the escrowed funds back in the wallets they
\* were drawn from.
WithoutOtherGigs(st, g) ==
    LET others == {k \in DOMAIN st.escrow : k[1][3] # g}
        drawn(w) == {k \in others : TokenKey(k[1][2], k[2]) = w}
    IN  [ wallet |-> [w \in DOMAIN st.wallet |->
                          st.wallet[w] + SumOver(st.escrow, drawn(w))],
          escrow |-> [k \in DOMAIN st.escrow \ others |-> st.escrow[k]],
          deal |-> [k \in {d \in DOMAIN st.deal : d[3] = g} |-> st.deal[k]],
          trace |-> <<>> ]

\* What a transaction by client c on gig g with mint m leaves of its own:
\* its result, its Deal record and its escrow balance, if any.
LeftOfPair(pre, out, c, g, m) ==
    LET post == commit(pre, out) IN
    [ result |-> out.result,
      deal |-> IF DealKey(c, g) \in DOMAIN post.deal
               THEN Some(post.deal[DealKey(c, g)]) ELSE None,
      escrow |-> IF TokenKey(DealKey(c, g), m) \in DOMAIN post.escrow
                 THEN Some(post.escrow[TokenKey(DealKey(c, g), m)]) ELSE None ]

NoCall ==
    [ client |-> "", gig |-> "", mint |-> "",
      params |-> [referrer |-> None, offer |-> 0, deadline |-> 0],
      time |-> 0, result |-> "None", fee |-> None, trace |-> <<>>,
      pre |-> [wallet |-> <<>>, escrow |-> <<>>, deal |-> <<>>],
      alone |-> [result |-> "None", deal |-> None, escrow |-> None],
      preflight |-> [result |-> "None", wallet |-> <<>>, escrow |-> <<>>, deal |-> <<>>] ]

Init ==
    /\ gigs \in {t \in [Gigs -> GigProfiles] : t["g1"] = OpenGig}
    /\ config \in ConfigSet
    /\ overflow_checks \in BOOLEAN
    /\ now = 1000
    /\ wallet = [k \in Clients \X Mints |-> InitialBalance(k[1])]
    /\ escrow = <<>>
    /\ deal = <<>>
    /\ last = NoCall
    /\ calls = 0

\* One create_deal transaction, signed by client c, on gig g, with mint m.
\* The clock has advanced by the time of the next transaction.  last records
\* the transaction, what the same transaction leaves when it runs at the same
\* time without the transactions on other gigs (alone), and what the
\* pre-flight variant leaves on the same accounts (preflight).
create_deal(c, g, m, params) ==
    LET pre == Accounts
        out == instruction(pre, c, g, m, params)
        post == commit(pre, out)
        before == IF \A k \in DOMAIN escrow : k[1][3] = g THEN pre
                  ELSE WithoutOtherGigs(pre, g)
    IN  /\ calls < MaxCalls
        /\ calls' = calls + 1
        /\ wallet' = post.wallet
        /\ escrow' = post.escrow
        /\ deal' = post.deal
        /\ last' = [ client |-> c, gig |-> g, mint |-> m, params |-> params,
                     time |-> now, result |-> out.result,
                     fee |-> client_fee(params.offer), trace |-> out.st.trace,
                     pre |-> [wallet |-> wallet, escrow |-> escrow, deal |-> deal],
                     alone |-> LeftOfPair(before, instruction(before, c, g, m, params),
                                          c, g, m),
                     preflight |-> Left(pre, instruction_preflight(pre, c, g, m, params)) ]
        /\ now' = now + 100
        /\ UNCHANGED <<gigs, config, overflow_checks>>

CreateDealCall ==
    \E c \in Clients, g \in Gigs, m \in Mints, params \in CreateDealParams :
        create_deal(c, g, m, params)

Next == CreateDealCall

Spec == Init /\ [][Next]_vars

\* ------------------------------------------------------ claim vocabulary

\* A create_deal transaction has run; last describes it.
Called == last.result # "None"

LastGig == gigs[last.gig]

LastDeal == DealKey(last.client, last.gig)

LastEscrow == TokenKey(LastDeal, last.mint)

LastWallet == TokenKey(last.client, last.mint)

\* The accounts are as they were before the last transaction.
NoEffect ==
    /\ wallet = last.pre.wallet
    /\ escrow = last.pre.escrow
    /\ deal = last.pre.deal

\* No escrow account of the last transaction's (client, gig) pair holds funds.
NoEscrowedFunds ==
    \A k \in DOMAIN escrow : k[1] = LastDeal => escrow[k] = 0

\* The preconditions of section 4.2 held before the last transaction.
AccountChecksPass ==
    /\ LastDeal \notin DOMAIN last.pre.deal
    /\ LastGig.mint = Some(last.mint)
    /\ LastGig.state = 1
    /\ LastGig.asking <= last.params.offer

\* percentage * offer of the last transaction, as a mathematical integer.
FeeProduct == config.client_fee_percentage * last.params.offer

\* The fee of section 4.1 on the last transaction's offer.
FeeOwed ==
    IF FeeProduct \div 10000 > config.client_fee_min
    THEN FeeProduct \div 10000
    ELSE config.client_fee_min

\* offer + fee of the last transaction, as a mathematical integer.
TotalOwed == last.params.offer + FeeOwed

\* The fee and the total fit u64 and the wallet covers the total.
FundingPossible ==
    /\ FeeProduct <= U64Max
    /\ TotalOwed <= U64Max
    /\ last.pre.wallet[LastWallet] >= TotalOwed

\* ------------------------------------------------------------------ C1

\* C1: whenever deadline < time_created + gig.min_completion_time, with every
\* other precondition holding and the wallet covering offer + fee, create_deal
\* fails with DeadlineTooShort, and afterwards the pair's escrow holds nothing,
\* the pair has no Deal record, and the client's wallet is as it was.
C1_DeadlineTooShortRollsBack ==
    (/\ Called
     /\ AccountChecksPass
     /\ FundingPossible
     /\ last.params.deadline < last.time + LastGig.min_completion_time)
    => /\ last.result = "DeadlineTooShort"
       /\ NoEscrowedFunds
       /\ LastDeal \notin DOMAIN deal
       /\ wallet[LastWallet] = last.pre.wallet[LastWallet]

\* C1 where time_created + gig.min_completion_time fits i64: the transfer and
\* the record population ran, the failure undid them.
C1_WithinI64 ==
    (/\ Called
     /\ AccountChecksPass
     /\ FundingPossible
     /\ last.time + LastGig.min_completion_time <= I64Max
     /\ last.params.deadline < last.time + LastGig.min_completion_time)
    => /\ last.result = "DeadlineTooShort"
       /\ <<"transfer", "populate">> = SubSeq(last.trace, 3, 4)
       /\ NoEffect

\* ------------------------------------------------------------------ C2

\* C2: after every successful create_deal (so offer >= gig.asking) the fee
\* charged is max(floor(percentage * offer / 10000), client_fee_min) and the
\* new escrow account holds exactly offer + fee.
C2_EscrowHoldsOfferPlusFee ==
    (Called /\ last.result = "Ok")
    => /\ last.params.offer >= LastGig.asking
       /\ last.fee = Some(FeeOwed)
       /\ escrow[LastEscrow] = last.params.offer + FeeOwed

\* C2 where offer + fee fits u64.
C2_WithinU64 ==
    (Called /\ last.result = "Ok" /\ TotalOwed <= U64Max)
    => /\ last.params.offer >= LastGig.asking
       /\ last.fee = Some(FeeOwed)
       /\ escrow[LastEscrow] = last.params.offer + FeeOwed

\* ------------------------------------------------------------------ C3

\* C3: a create_deal for a (client, gig) pair that already has a Deal fails
\* as a duplicate whatever its offer, deadline and referrer are, leaves every
\* Deal and escrow as it was and takes nothing from the client's wallet; each
\* Deal record is the record of its own (client, gig) pair.
C3_SecondDealFails ==
    /\ (Called /\ LastDeal \in DOMAIN last.pre.deal)
       => /\ last.result = "AlreadyInUse"
          /\ deal = last.pre.deal
          /\ escrow = last.pre.escrow
          /\ wallet = last.pre.wallet
    /\ \A c \in Clients, g \in Gigs :
          DealKey(c, g) \in DOMAIN deal
          => deal[DealKey(c, g)].client = c /\ deal[DealKey(c, g)].gig = g

\* A second attempt on a pair, with another offer and another referrer than
\* the existing Deal's, was turned down.
C3_Witness ==
    /\ Called
    /\ LastDeal \in DOMAIN last.pre.deal
    /\ last.result = "AlreadyInUse"
    /\ last.params.offer # deal[LastDeal].offer
    /\ last.params.referrer # deal[LastDeal].referrer
    /\ last.params.deadline # deal[LastDeal].deadline

\* ------------------------------------------------------------------ C4

\* C4 as stated: every create_deal with offer < gig.asking fails with
\* InsufficientOffer, transfers nothing and creates no Deal record.
C4_AlwaysInsufficientOffer ==
    (Called /\ last.params.offer < LastGig.asking)
    => /\ last.result = "InsufficientOffer"
       /\ NoEffect

\* C4, amended: every create_deal with offer < gig.asking fails, performs no
\* transfer and leaves wallets, escrows and Deal records unchanged; the failure
\* is InsufficientOffer when the checks before it pass (the pair has no Deal,
\* the mint supplied is the Gig's mint, gig.state = 1).
C4_InsufficientOffer ==
    (Called /\ last.params.offer < LastGig.asking)
    => /\ last.result \notin {"Ok", "None"}
       /\ \A i \in DOMAIN last.trace : last.trace[i] # "transfer"
       /\ NoEffect
       /\ (/\ LastDeal \notin DOMAIN last.pre.deal
           /\ LastGig.mint = Some(last.mint)
           /\ LastGig.state = 1)
          => last.result = "InsufficientOffer"

\* An offer one below the asking price was turned down with InsufficientOffer.
C4_Witness ==
    /\ Called
    /\ last.params.offer = LastGig.asking - 1
    /\ last.result = "InsufficientOffer"
    /\ LastDeal \notin DOMAIN deal

\* ------------------------------------------------------------------ C5

\* C5 as stated: every create_deal whose percentage * offer exceeds u64 fails
\* with an arithmetic error and has no side effects.
C5_AlwaysArithmeticError ==
    (Called /\ FeeProduct > U64Max)
    => /\ last.result = "Panic:unwrap"
       /\ NoEffect

\* C5, amended: every create_deal whose percentage * offer exceeds u64 fails
\* without any transfer and with no side effects (no fee is computed from a
\* wrapped or saturated product); the failure is the arithmetic error when the
\* account checks pass.
C5_ProductOverflowFails ==
    (Called /\ FeeProduct > U64Max)
    => /\ last.result \notin {"Ok", "None"}
       /\ last.fee = None
       /\ \A i \in DOMAIN last.trace : last.trace[i] # "transfer"
       /\ NoEffect
       /\ AccountChecksPass => last.result = "Panic:unwrap"

\* An offer whose product with the percentage overflows was turned down with
\* the arithmetic error, after the accounts had been created.
C5_Witness ==
    /\ Called
    /\ FeeProduct > U64Max
    /\ last.result = "Panic:unwrap"
    /\ last.trace = <<"init_deal", "init_escrow">>
    /\ deal = last.pre.deal

\* ------------------------------------------------------------------ C6

\* C6: whenever offer + fee exceeds u64 (the fee itself being computable and
\* the account checks passing) create_deal fails: no transfer is made and no
\* Deal record is created.
C6_TotalOverflowFails ==
    (Called /\ AccountChecksPass /\ FeeProduct <= U64Max /\ TotalOwed > U64Max)
    => /\ last.result # "Ok"
       /\ \A i \in DOMAIN last.trace : last.trace[i] # "transfer"
       /\ LastDeal \notin DOMAIN deal

\* ------------------------------------------------------------------ C7

\* C7: after a successful create_deal the Deal's referrer is empty when the
\* referrer supplied is the client or none, and the referrer supplied
\* otherwise; no Deal record names its own client as referrer.
C7_ReferrerResolved ==
    /\ (Called /\ last.result = "Ok")
       => /\ last.params.referrer = Some(last.client)
             => deal[LastDeal].referrer = None
          /\ last.params.referrer = None
             => deal[LastDeal].referrer = None
          /\ last.params.referrer \notin {None, Some(last.client)}
             => deal[LastDeal].referrer = last.params.referrer
    /\ \A k \in DOMAIN deal : deal[k].referrer # Some(deal[k].client)

\* A Deal opened with the client as referrer has no referrer, and another Deal
\* keeps the referrer it was opened with.
C7_Witness ==
    /\ Called
    /\ last.result = "Ok"
    /\ last.params.referrer = Some(last.client)
    /\ deal[LastDeal].referrer = None
    /\ \E k \in DOMAIN deal : deal[k].referrer # None

\* ------------------------------------------------------------------ C8

\* C8: a successful create_deal makes exactly one transfer and creates exactly
\* one Deal record and one escrow account; the Deal has state 1 and the offer,
\* gig, freelancer, client, time and deadline of the call; the client's wallet
\* is reduced by exactly offer + fee.
C8_SuccessPostcondition ==
    (Called /\ last.result = "Ok")
    => /\ Cardinality({i \in DOMAIN last.trace : last.trace[i] = "transfer"}) = 1
       /\ Cardinality({i \in DOMAIN last.trace : last.trace[i] = "init_deal"}) = 1
       /\ DOMAIN deal = DOMAIN last.pre.deal \cup {LastDeal}
       /\ LastDeal \notin DOMAIN last.pre.deal
       /\ deal[LastDeal].state = 1
       /\ deal[LastDeal].offer = last.params.offer
       /\ deal[LastDeal].gig = last.gig
       /\ deal[LastDeal].freelancer = LastGig.owner
       /\ deal[LastDeal].client = last.client
       /\ deal[LastDeal].time_created = last.time
       /\ deal[LastDeal].deadline = last.params.deadline
       /\ DOMAIN escrow = DOMAIN last.pre.escrow \cup {LastEscrow}
       /\ LastEscrow \notin DOMAIN last.pre.escrow
       /\ wallet[LastWallet] = last.pre.wallet[LastWallet] - TotalOwed

\* C8 where offer + fee fits u64.
C8_WithinU64 ==
    (Called /\ last.result = "Ok" /\ TotalOwed <= U64Max)
    => C8_SuccessPostcondition

\* ------------------------------------------------------------------ C9

\* C9: when the wallet holds less than offer + fee (the account checks passing
\* and the fee being computable), create_deal fails and the wallet, the escrows
\* and the Deal records are unchanged.
C9_InsufficientFundsFails ==
    (/\ Called
     /\ AccountChecksPass
     /\ FeeProduct <= U64Max
     /\ last.pre.wallet[LastWallet] < TotalOwed)
    => /\ last.result # "Ok"
       /\ NoEffect

\* C9 where offer + fee fits u64: the failure is InsufficientFunds.
C9_WithinU64 ==
    (/\ Called
     /\ AccountChecksPass
     /\ FeeProduct <= U64Max
     /\ TotalOwed <= U64Max
     /\ last.pre.wallet[LastWallet] < TotalOwed)
    => /\ last.result = "InsufficientFunds"
       /\ NoEffect

\* ----------------------------------------------------------------- C10

\* C10 as stated: every create_deal on a Gig with state # 1 fails as
\* gig-not-open with no funds moved and no Deal record created.
C10_AlwaysGigNotOpen ==
    (Called /\ LastGig.state # 1)
    => /\ last.result = "ConstraintRaw:gig"
       /\ NoEffect

\* C10, amended: create_deal succeeds only on a Gig with state 1; on a Gig with
\* state # 1 it fails with no transfer and no change to wallets, escrows and
\* Deal records, for any offer, deadline and referrer; the failure is the
\* gig constraint when the checks before it pass (the pair has no Deal, the
\* mint supplied is the Gig's mint).
C10_OnlyOpenGigs ==
    /\ (Called /\ last.result = "Ok") => LastGig.state = 1
    /\ (Called /\ LastGig.state # 1)
       => /\ last.result \notin {"Ok", "None"}
          /\ \A i \in DOMAIN last.trace : last.trace[i] # "transfer"
          /\ NoEffect
          /\ (LastDeal \notin DOMAIN last.pre.deal /\ LastGig.mint = Some(last.mint))
             => last.result = "ConstraintRaw:gig"

\* A sufficient offer with a valid deadline on a Gig that is not open was
\* turned down by the gig constraint.
C10_Witness ==
    /\ Called
    /\ LastGig.state # 1
    /\ last.params.offer >= LastGig.asking
    /\ last.params.deadline >= last.time + LastGig.min_completion_time
    /\ last.params.referrer # None
    /\ last.result = "ConstraintRaw:gig"

\* ----------------------------------------------------------------- C11

\* C11: create_deal fails, with no funds moved and no Deal record created,
\* whenever the mint supplied is not the Gig's mint and whenever the Gig's
\* mint is None; it never succeeds on a Gig whose mint is None.
C11_MintMismatchFails ==
    /\ (Called /\ LastGig.mint # Some(last.mint))
       => /\ last.result \notin {"Ok", "None"}
          /\ \A i \in DOMAIN last.trace : last.trace[i] # "transfer"
          /\ NoEffect
    /\ (Called /\ last.result = "Ok") => LastGig.mint # None

\* A call that was valid but for the mint failed: the Gig's mint is None, or
\* the mint supplied is not the Gig's.
C11_Witness ==
    /\ Called
    /\ LastGig.state = 1
    /\ last.params.offer >= LastGig.asking
    /\ last.params.deadline >= last.time + LastGig.min_completion_time
    /\ LastDeal \notin DOMAIN last.pre.deal
    /\ \/ LastGig.mint = None /\ last.result = "Panic:unwrap_mint"
       \/ LastGig.mint = Some("m2") /\ last.mint = "m1"
          /\ last.result = "ConstraintRaw:mint"

\* ----------------------------------------------------------------- C12

\* The Deals opened on gigs other than the last transaction's, before it.
OtherGigDeals == {k \in DOMAIN last.pre.escrow : k[1][3] # last.gig}

\* What the last transaction left of its own.
LeftOfLast ==
    [ result |-> last.result,
      deal |-> IF LastDeal \in DOMAIN deal THEN Some(deal[LastDeal]) ELSE None,
      escrow |-> IF LastEscrow \in DOMAIN escrow THEN Some(escrow[LastEscrow]) ELSE None ]

\* C12 as stated: a create_deal has the same outcome (result, Deal, escrow
\* balance) after transactions on other gigs as without them, also when they
\* were paid from the same wallet.
C12_OtherGigsNeverMatter ==
    Called => LeftOfLast = last.alone

\* C12, amended: a create_deal has the same outcome (result, Deal, escrow
\* balance) after transactions on other gigs as without them, provided none
\* of those was paid from the wallet it is paid from.
C12_OtherWalletsDoNotMatter ==
    (/\ Called
     /\ \A k \in OtherGigDeals : TokenKey(k[1][2], k[2]) # LastWallet)
    => LeftOfLast = last.alone

\* A Deal was opened while a Deal on another gig, paid from another wallet,
\* was there.
C12_Witness ==
    /\ Called
    /\ last.result = "Ok"
    /\ OtherGigDeals # {}
    /\ \A k \in OtherGigDeals : TokenKey(k[1][2], k[2]) # LastWallet
    /\ LeftOfLast = last.alone

\* ----------------------------------------------------------------- C13

\* The Deal record d exists with state 1 and a deadline no earlier than
\* time_created + min_completion_time of its Gig.
DealValid(d) ==
    /\ d \in DOMAIN deal
    /\ deal[d].state = 1
    /\ deal[d].deadline >= deal[d].time_created + gigs[d[3]].min_completion_time

\* The Deal record d exists with state 1 and a deadline that the deadline
\* check, as the program computes it, accepts.
DealAccepted(d) ==
    /\ d \in DOMAIN deal
    /\ deal[d].state = 1
    /\ deadline_check(deal[d].time_created, gigs[d[3]].min_completion_time,
                      deal[d].deadline) = "Ok"

\* C13: in every state between transactions an escrow holds funds if and
\* only if its Deal record exists with state 1 and a deadline that satisfies
\* the deadline check; no Deal record is there that does not.
C13_EscrowIffValidDeal ==
    /\ \A k \in DOMAIN escrow : escrow[k] > 0 => DealValid(k[1])
    /\ \A d \in DOMAIN deal :
          /\ DealValid(d)
          /\ \E k \in DOMAIN escrow : k[1] = d /\ escrow[k] > 0

\* C13 with the deadline check as the program computes it: nothing of a
\* transaction that failed, or has not finished, is in the accounts.
C13_NoIntermediateState ==
    /\ \A k \in DOMAIN escrow : escrow[k] > 0 /\ DealAccepted(k[1])
    /\ \A d \in DOMAIN deal :
          /\ DealAccepted(d)
          /\ \E k \in DOMAIN escrow : k[1] = d /\ escrow[k] > 0

\* ----------------------------------------------------------------- C14

\* C14: a create_deal, successful or not, leaves the Gig records and the
\* Config record as they were, and leaves the wallets other than the one it
\* is paid from and the escrows and Deal records of the other (client, gig)
\* pairs as they were.
C14_Frame ==
    [][ LET w == TokenKey(last'.client, last'.mint)
            d == DealKey(last'.client, last'.gig)
        IN  /\ gigs' = gigs
            /\ config' = config
            /\ DOMAIN wallet' = DOMAIN wallet
            /\ \A k \in DOMAIN wallet : k # w => wallet'[k] = wallet[k]
            /\ DOMAIN escrow \subseteq DOMAIN escrow'
            /\ \A k \in DOMAIN escrow' :
                  k[1] # d => k \in DOMAIN escrow /\ escrow'[k] = escrow[k]
            /\ DOMAIN deal \subseteq DOMAIN deal'
            /\ \A k \in DOMAIN deal' :
                  k # d => k \in DOMAIN deal /\ deal'[k] = deal[k] ]_vars

\* A Deal was opened while another pair's Deal was there, and that Deal, its
\* escrow and the other client's wallets are as before.
C14_Witness ==
    /\ Called
    /\ last.result = "Ok"
    /\ DOMAIN last.pre.deal # {}
    /\ \A k \in DOMAIN last.pre.deal : deal[k] = last.pre.deal[k]
    /\ \A k \in DOMAIN last.pre.escrow : escrow[k] = last.pre.escrow[k]
    /\ \A k \in DOMAIN wallet : k # LastWallet => wallet[k] = last.pre.wallet[k]
    /\ wallet[LastWallet] < last.pre.wallet[LastWallet]

\* ----------------------------------------------------------------- C15

\* C15: validating everything, the deadline included, before the transfer
\* accepts the same inputs as the program's order (transfer, populate, then
\* the deadline check): from the same accounts and the same inputs the two
\* agree on success or failure and leave the same wallets, escrows and Deal
\* records.
C15_PreflightEquivalent ==
    Called =>
        /\ (last.result = "Ok") <=> (last.preflight.result = "Ok")
        /\ wallet = last.preflight.wallet
        /\ escrow = last.preflight.escrow
        /\ deal = last.preflight.deal

\* The program transferred, populated and then rejected the deadline, where
\* the pre-flight order rejects it before anything moved.
C15_Witness ==
    /\ Called
    /\ last.result = "DeadlineTooShort"
    /\ <<"transfer", "populate">> = SubSeq(last.trace, 3, 4)
    /\ last.preflight.result = "DeadlineTooShort"
    /\ NoEffect

\* ----------------------------------------------------------------- C16

\* C16: every Deal record there is has state 1, an offer no lower than the
\* asking price of its Gig, a deadline no earlier than time_created +
\* min_completion_time of its Gig, and the owner of its Gig as freelancer.
C16_DealInvariant ==
    \A d \in DOMAIN deal :
        /\ deal[d].state = 1
        /\ deal[d].offer >= gigs[deal[d].gig].asking
        /\ deal[d].deadline >= deal[d].time_created + gigs[deal[d].gig].min_completion_time
        /\ deal[d].freelancer = gigs[deal[d].gig].owner

\* C16 where time_created + min_completion_time fits i64, and without the
\* deadline clause where it does not.
C16_WithinI64 ==
    \A d \in DOMAIN deal :
        /\ deal[d].state = 1
        /\ deal[d].gig = d[3]
        /\ deal[d].offer >= gigs[d[3]].asking
        /\ deal[d].freelancer = gigs[d[3]].owner
        /\ deal[d].time_created + gigs[d[3]].min_completion_time <= I64Max
           => deal[d].deadline >= deal[d].time_created + gigs[d[3]].min_completion_time

\* ----------------------------------------------------------------- C17

\* C17: with every other precondition holding, create_deal succeeds if and
\* only if deadline >= time_created + gig.min_completion_time; at deadline =
\* time_created + min_completion_time - 1 it fails with DeadlineTooShort and
\* the pair's escrow holds nothing.
C17_InclusiveBoundary ==
    (/\ Called
     /\ AccountChecksPass
     /\ FundingPossible)
    => /\ (last.result = "Ok")
          <=> (last.params.deadline >= last.time + LastGig.min_completion_time)
       /\ last.params.deadline = last.time + LastGig.min_completion_time - 1
          => /\ last.result = "DeadlineTooShort"
             /\ NoEscrowedFunds

\* C17 where time_created + gig.min_completion_time fits i64.
C17_WithinI64 ==
    (/\ Called
     /\ AccountChecksPass
     /\ FundingPossible
     /\ last.time + LastGig.min_completion_time <= I64Max)
    => /\ (last.result = "Ok")
          <=> (last.params.deadline >= last.time + LastGig.min_completion_time)
       /\ last.params.deadline = last.time + LastGig.min_completion_time
          => /\ LastDeal \in DOMAIN deal
             /\ deal[LastDeal].deadline = last.params.deadline
       /\ last.params.deadline = last.time + LastGig.min_completion_time - 1
          => /\ last.result = "DeadlineTooShort"
             /\ NoEscrowedFunds
             /\ NoEffect

\* ----------------------------------------------------------------- C20

\* C20: whenever time_created + gig.min_completion_time exceeds the i64
\* range, create_deal does not succeed and leaves no funds in escrow and no
\* Deal record.
C20_DeadlineCheckDoesNotWrap ==
    (/\ Called
     /\ last.time + LastGig.min_completion_time > I64Max)
    => /\ last.result # "Ok"
       /\ NoEscrowedFunds
       /\ LastDeal \notin DOMAIN deal

\* C20 in a build with overflow checks: the sum panics and the transaction
\* is rolled back.
C20_WithOverflowChecks ==
    (/\ Called
     /\ overflow_checks
     /\ last.time + LastGig.min_completion_time > I64Max)
    => /\ last.result # "Ok"
       /\ NoEffect

\* ----------------------------------------------------------------- C18

\* The deadline of the last transaction is below time_created +
\* gig.min_completion_time.
DeadlineShort == last.params.deadline < last.time + LastGig.min_completion_time

\* The checks that come before the asking price passed: no Deal of the pair
\* existed, the mint is the Gig's, the Gig is open.
EarlierChecksPass ==
    /\ LastDeal \notin DOMAIN last.pre.deal
    /\ LastGig.mint = Some(last.mint)
    /\ LastGig.state = 1

\* C18: failures are reported in the order of the steps. An offer below the
\* asking price is reported as InsufficientOffer whatever the deadline; a
\* fee that overflows, or a wallet below offer + fee, together with a too
\* short deadline is reported as an arithmetic error or as insufficient
\* funds, never as DeadlineTooShort; DeadlineTooShort is reported only after
\* the transfer and the population of the record.
C18_FailureOrder ==
    Called =>
        /\ (EarlierChecksPass /\ last.params.offer < LastGig.asking)
           => last.result = "InsufficientOffer"
        /\ (AccountChecksPass /\ FeeProduct > U64Max /\ DeadlineShort)
           => last.result = "Panic:unwrap"
        /\ (/\ AccountChecksPass
            /\ FeeProduct <= U64Max
            /\ last.pre.wallet[LastWallet] < TotalOwed
            /\ DeadlineShort)
           => last.result \in {"InsufficientFunds", "Panic:add_overflow"}
        /\ last.result = "DeadlineTooShort"
           => <<"transfer", "populate">> = SubSeq(last.trace, 3, 4)

\* C18 where offer + fee fits u64.
C18_WithinU64 ==
    Called =>
        /\ (EarlierChecksPass /\ last.params.offer < LastGig.asking)
           => /\ last.result = "InsufficientOffer"
              /\ \A i \in DOMAIN last.trace : last.trace[i] # "transfer"
        /\ (AccountChecksPass /\ FeeProduct > U64Max /\ DeadlineShort)
           => /\ last.result = "Panic:unwrap"
              /\ \A i \in DOMAIN last.trace : last.trace[i] # "transfer"
        /\ (/\ AccountChecksPass
            /\ TotalOwed <= U64Max
            /\ last.pre.wallet[LastWallet] < TotalOwed
            /\ DeadlineShort)
           => /\ last.result = "InsufficientFunds"
              /\ \A i \in DOMAIN last.trace : last.trace[i] # "populate"
        /\ last.result = "DeadlineTooShort"
           => <<"transfer", "populate">> = SubSeq(last.trace, 3, 4)

\* ----------------------------------------------------------------- C19

\* The fee of section 4.1 on an offer.
FeeOf(offer) ==
    IF (config.client_fee_percentage * offer) \div 10000 > config.client_fee_min
    THEN (config.client_fee_percentage * offer) \div 10000
    ELSE config.client_fee_min

\* All the tokens of mint m: in the wallets and in the escrows.
Supply(m) ==
    SumOver(wallet, {k \in DOMAIN wallet : k[2] = m})
    + SumOver(escrow, {k \in DOMAIN escrow : k[2] = m})

\* Escrow accounts and Deal records correspond one to one; each escrow has
\* its Deal record as authority and is in the mint of the Deal's Gig.
EscrowsMatchDeals ==
    /\ \A k \in DOMAIN escrow :
          /\ k[1] \in DOMAIN deal
          /\ k[1] = DealKey(deal[k[1]].client, deal[k[1]].gig)
          /\ gigs[deal[k[1]].gig].mint = Some(k[2])
    /\ \A d \in DOMAIN deal :
          Cardinality({k \in DOMAIN escrow : k[1] = d}) = 1

\* C19: the tokens of each mint in wallets and escrows together are constant,
\* escrows and Deal records correspond one to one, each escrow is under its
\* Deal record and in its Gig's mint, and holds deal.offer + fee(deal.offer).
C19_ConservationAndEscrows ==
    /\ \A m \in Mints : Supply(m) = InitialBalance("c1") + InitialBalance("c2")
    /\ EscrowsMatchDeals
    /\ \A k \in DOMAIN escrow :
          k[1] \in DOMAIN deal
          => escrow[k] = deal[k[1]].offer + FeeOf(deal[k[1]].offer)

\* C19 with the total as the program computes it: the escrow holds
\* offer + fee where that fits u64.
C19_WithinU64 ==
    /\ \A m \in Mints : Supply(m) = InitialBalance("c1") + InitialBalance("c2")
    /\ EscrowsMatchDeals
    /\ \A k \in DOMAIN escrow :
          (/\ k[1] \in DOMAIN deal
           /\ deal[k[1]].offer + FeeOf(deal[k[1]].offer) <= U64Max)
          => escrow[k] = deal[k[1]].offer + FeeOf(deal[k[1]].offer)

====
